---------------------------- MODULE Spec2Model ----------------------------
(***************************************************************************)
(* Model of the extension fixer: src/utils/fileSignatures.ts (signature    *)
(* detection, extension helpers) and src/App.tsx (folder selection, the    *)
(* batch run, archive generation, download and reset).                     *)
(*                                                                         *)
(* Strings are sequences of one-character strings, bytes are 0..255.       *)
(***************************************************************************)
EXTENDS Integers, Sequences, FiniteSets

VARIABLES
    state,          \* useState<ProcessState>               (App.tsx:10)
    stats,          \* useState<ProcessingStats>            (App.tsx:11)
    currentFile,    \* useState<string>                     (App.tsx:12)
    logs,           \* useState<ProcessedFile[]>            (App.tsx:13)
    zipBlob,        \* useState<Blob | null>                (App.tsx:14)
    errorMsg,       \* useState<string>                     (App.tsx:15)
    pc,             \* position of the one startProcessing call, "none" when no call is live
    files,          \* startProcessing's argument           (App.tsx:35)
    i,              \* loop index, 0-based as in the code   (App.tsx:50)
    processedFiles, \* local outcome list                   (App.tsx:42)
    zipCalls,       \* the zip.file(path, file) calls made on the JSZip object (App.tsx:43,97)
    fixedCount,     \* local counter                        (App.tsx:48)
    readerResult,   \* e.target.result of the pending FileReader (fileSignatures.ts:13)
    realType,       \* value the detectMimeType promise settled with (App.tsx:57)
    downloads       \* number of archives handed to saveAs  (App.tsx:136)

vars == <<state, stats, currentFile, logs, zipBlob, errorMsg, pc, files, i,
          processedFiles, zipCalls, fixedCount, readerResult, realType, downloads>>

---------------------------------------------------------------------------
(* Bounds of the model. *)

MaxFiles == 3       \* longest folder selection in the batch specification
MaxDownloads == 1   \* the download counter stops here

---------------------------------------------------------------------------
(* JavaScript values and string primitives. *)

\* e.target.result: an ArrayBuffer holding the bytes read, or null.
ArrayBuffer(bytes) == [null |-> FALSE, bytes |-> bytes]
NullResult == [null |-> TRUE, bytes |-> <<>>]

\* The zipBlob state: a Blob holding the archive's entries, or null.
Blob(entries) == [null |-> FALSE, entries |-> entries]
NullBlob == [null |-> TRUE, entries |-> {}]

Min(a, b) == IF a < b THEN a ELSE b
Max(a, b) == IF a > b THEN a ELSE b

\* Array.prototype.slice / Blob.slice / subarray(begin, end) for 0 <= begin, end.
Slice(s, begin, end) ==
    LET b == Min(begin, Len(s))
        e == Min(end, Len(s))
    IN  IF e <= b THEN <<>> ELSE SubSeq(s, b + 1, e)

\* String.prototype.substring(start, end): negative arguments count as 0 and
\* the two are swapped when start > end.
Substring(s, start, end) ==
    LET a == Min(Max(start, 0), Len(s))
        b == Min(Max(end, 0), Len(s))
    IN  Slice(s, Min(a, b), Max(a, b))

StartsWith(s, p) == Len(p) <= Len(s) /\ SubSeq(s, 1, Len(p)) = p

\* String.prototype.lastIndexOf(c): 0-based index of the last c, -1 if none.
LastIndexOf(s, c) ==
    IF \E k \in 1..Len(s) : s[k] = c
    THEN (CHOOSE k \in 1..Len(s) : s[k] = c /\ \A m \in (k + 1)..Len(s) : s[m] # c) - 1
    ELSE -1

\* String.prototype.split(sep) for a one-character separator.
RECURSIVE SplitFrom(_, _, _)
SplitFrom(s, sep, cur) ==
    IF s = <<>> THEN <<cur>>
    ELSE IF Head(s) = sep THEN <<cur>> \o SplitFrom(Tail(s), sep, <<>>)
    ELSE SplitFrom(Tail(s), sep, Append(cur, Head(s)))

Split(s, sep) == SplitFrom(s, sep, <<>>)

\* Array.prototype.join(sep).
RECURSIVE Join(_, _)
Join(parts, sep) ==
    IF parts = <<>> THEN <<>>
    ELSE IF Len(parts) = 1 THEN parts[1]
    ELSE parts[1] \o <<sep>> \o Join(Tail(parts), sep)

UpperLetters == <<"A","B","C","D","E","F","G","H","I","J","K","L","M",
                  "N","O","P","Q","R","S","T","U","V","W","X","Y","Z">>
LowerLetters == <<"a","b","c","d","e","f","g","h","i","j","k","l","m",
                  "n","o","p","q","r","s","t","u","v","w","x","y","z">>

\* String.prototype.toLowerCase().
ToLowerCase(s) ==
    IF s = <<>> THEN <<>> ELSE
    [k \in 1..Len(s) |->
        IF \E n \in 1..26 : UpperLetters[n] = s[k]
        THEN LowerLetters[CHOOSE n \in 1..26 : UpperLetters[n] = s[k]]
        ELSE s[k]]

HexDigits == <<"0","1","2","3","4","5","6","7","8","9","A","B","C","D","E","F">>

\* b.toString(16).toUpperCase() for a byte: no leading zero is written.
ToHex(b) ==
    IF b < 16 THEN <<HexDigits[b + 1]>>
    ELSE <<HexDigits[(b \div 16) + 1], HexDigits[(b % 16) + 1]>>

\* The hex digits of the bytes, concatenated (the `header +=` loop and the
\* Array.from(..).map(..).join('') of the WEBP test).
RECURSIVE HexOf(_)
HexOf(arr) == IF arr = <<>> THEN <<>> ELSE ToHex(Head(arr)) \o HexOf(Tail(arr))

---------------------------------------------------------------------------
(* src/utils/fileSignatures.ts *)

PrefixLen == 12

\* The values of the promise's type 'png' | 'jpg' | 'gif' | 'webp' | 'unknown'.
PNG     == <<"p","n","g">>
JPG     == <<"j","p","g">>
GIF     == <<"g","i","f">>
WEBP    == <<"w","e","b","p">>
UNKNOWN == <<"u","n","k","n","o","w","n">>

SigPNG  == <<"8","9","5","0","4","E","4","7">>
SigJPG  == <<"F","F","D","8","F","F">>
SigGIF  == <<"4","7","4","9","4","6","3","8">>
SigRIFF == <<"5","2","4","9","4","6","4","6">>
SigWEBP == <<"5","7","4","5","4","2","5","0">>

\* What the FileReader delivers for file.slice(0, 12) when the read succeeds.
BlobSlice(file) == ArrayBuffer(Slice(file.bytes, 0, PrefixLen))

\* Marks a rejected promise at an await inside the try block.
Rejected == <<"rejected">>

\* Variant: onerror and a null result reject the promise.
detectMimeTypeRejecting(result) ==
    IF result.null THEN Rejected
    ELSE LET header == HexOf(Slice(result.bytes, 0, 4))
         IN  IF StartsWith(header, SigPNG) THEN PNG
             ELSE IF StartsWith(header, SigJPG) THEN JPG
             ELSE IF StartsWith(header, SigGIF) THEN GIF
             ELSE UNKNOWN

\* The value the promise of detectMimeType settles with, given e.target.result
\* (NullResult after a failed read).  The promise is never rejected.
detectMimeType(result) ==
    IF result.null THEN UNKNOWN
    ELSE LET fullArr == result.bytes
             header == HexOf(Slice(fullArr, 0, 4))
         IN  IF StartsWith(header, SigPNG) THEN PNG
             ELSE IF StartsWith(header, SigJPG) THEN JPG
             ELSE IF StartsWith(header, SigGIF) THEN GIF
             ELSE IF /\ Len(fullArr) >= 12
                     /\ HexOf(Slice(fullArr, 0, 4)) = SigRIFF
                     /\ HexOf(Slice(fullArr, 8, 12)) = SigWEBP
                  THEN WEBP
             ELSE UNKNOWN

getExtension(filename) ==
    LET parts == Split(filename, ".")
    IN  IF Len(parts) = 1 THEN <<>> ELSE ToLowerCase(parts[Len(parts)])

MacPrefix == <<"_","_","M","A","C","O","S","X">>

\* Variant: only hidden files are skipped.
shouldSkipFileDotOnly(filename) == StartsWith(filename, <<".">>)

shouldSkipFile(filename) ==
    StartsWith(filename, <<".">>) \/ StartsWith(filename, MacPrefix)

---------------------------------------------------------------------------
(* src/App.tsx: the per-file decision of startProcessing (lines 54-93). *)

JPEG == <<"j","p","e","g">>

RelativePath(file) ==
    IF file.webkitRelativePath # <<>> THEN file.webkitRelativePath ELSE file.name

IsMatch(currentExt, type) == currentExt = type

\* Variant: no jpeg synonym.
IsJpgMatchNoSynonym(currentExt, type) == currentExt = JPG /\ type = JPG

IsJpgMatch(currentExt, type) ==
    (currentExt = JPEG /\ type = JPG) \/ (currentExt = JPG /\ type = JPG)

\* Variant: the name is cut at its first '.'.
NameWithoutExtFirstDot(name) ==
    LET cut == Split(name, ".")[1]
    IN  IF cut # <<>> THEN cut ELSE name

\* file.name.substring(0, file.name.lastIndexOf('.')) || file.name
NameWithoutExt(name) ==
    LET cut == Substring(name, 0, LastIndexOf(name, "."))
    IN  IF cut # <<>> THEN cut ELSE name

\* relativePath with its last '/'-separated part replaced by newName.
ReplaceLastPart(relativePath, newName) ==
    LET pathParts == Split(relativePath, "/")
        fileNameIdx == Len(pathParts)
    IN  Join([pathParts EXCEPT ![fileNameIdx] = newName], "/")

\* newName, finalPath and status as they stand at line 95.
Decide(file, type) ==
    LET relativePath == RelativePath(file)
        currentExt == getExtension(file.name)
        renamed == NameWithoutExt(file.name) \o <<".">> \o type
    IN  IF type # UNKNOWN /\ ~IsMatch(currentExt, type) /\ ~IsJpgMatch(currentExt, type)
        THEN [newName |-> renamed,
              finalPath |-> ReplaceLastPart(relativePath, renamed),
              status |-> "fixed"]
        ELSE [newName |-> file.name,
              finalPath |-> relativePath,
              status |-> "unchanged"]

---------------------------------------------------------------------------
(* src/App.tsx: state and handlers. *)

LogCap == 500
Now == 1            \* Date.now(): some positive time

NoValidFilesMsg == "No valid files found in the selected folder."
GenericErrorMsg == "An error occurred while processing files. Please try again."

InitStats == [total |-> 0, fixed |-> 0, processed |-> 0, startTime |-> 0]

Init ==
    /\ state = "IDLE"
    /\ stats = InitStats
    /\ currentFile = <<>>
    /\ logs = <<>>
    /\ zipBlob = NullBlob
    /\ errorMsg = ""
    /\ pc = "none"
    /\ files = <<>>
    /\ i = 0
    /\ processedFiles = <<>>
    /\ zipCalls = <<>>
    /\ fixedCount = 0
    /\ readerResult = NullResult
    /\ realType = UNKNOWN
    /\ downloads = 0

\* The locals of startProcessing go out of scope when the call returns.
LocalsDropped ==
    /\ pc' = "none"
    /\ files' = <<>>
    /\ i' = 0
    /\ processedFiles' = <<>>
    /\ zipCalls' = <<>>
    /\ fixedCount' = 0
    /\ readerResult' = NullResult
    /\ realType' = UNKNOWN

\* startProcessing up to the try block (lines 36-43).
StartProcessing(validFiles) ==
    /\ state' = "READING"
    /\ stats' = [total |-> Len(validFiles), fixed |-> 0, processed |-> 0,
                 startTime |-> Now]
    /\ logs' = <<>>
    /\ zipBlob' = NullBlob
    /\ errorMsg' = ""
    /\ processedFiles' = <<>>
    /\ zipCalls' = <<>>
    /\ files' = validFiles
    /\ pc' = "try"
    /\ UNCHANGED <<currentFile, i, fixedCount, readerResult, realType, downloads>>

\* Variant: the folder input is offered in every state in which no call of
\* startProcessing is live.
HandleFolderSelectAnyState(sel) ==
    /\ pc = "none"
    /\ IF Len(sel) = 0
       THEN UNCHANGED vars
       ELSE LET Valid(f) == ~shouldSkipFile(f.name)
                validFiles == SelectSeq(sel, Valid)
            IN  IF Len(validFiles) = 0
                THEN /\ errorMsg' = NoValidFilesMsg
                     /\ UNCHANGED <<state, stats, currentFile, logs, zipBlob, pc,
                                    files, i, processedFiles, zipCalls, fixedCount,
                                    readerResult, realType, downloads>>
                ELSE StartProcessing(validFiles)

\* The change handler of the folder input, which is rendered only in IDLE
\* (lines 181-200).  sel is event.target.files.
HandleFolderSelect(sel) ==
    /\ state = "IDLE"
    /\ pc = "none"
    /\ IF Len(sel) = 0
       THEN UNCHANGED vars
       ELSE LET Valid(f) == ~shouldSkipFile(f.name)
                validFiles == SelectSeq(sel, Valid)
            IN  IF Len(validFiles) = 0
                THEN /\ errorMsg' = NoValidFilesMsg
                     /\ UNCHANGED <<state, stats, currentFile, logs, zipBlob, pc,
                                    files, i, processedFiles, zipCalls, fixedCount,
                                    readerResult, realType, downloads>>
                ELSE StartProcessing(validFiles)

\* Entering the try block (lines 46-50).
EnterTry ==
    /\ pc = "try"
    /\ state' = "PROCESSING"
    /\ fixedCount' = 0
    /\ i' = 0
    /\ pc' = "loop"
    /\ UNCHANGED <<stats, currentFile, logs, zipBlob, errorMsg, files,
                   processedFiles, zipCalls, readerResult, realType, downloads>>

\* One iteration up to the await: lines 51-57 and the start of the read
\* (fileSignatures.ts lines 6-10, 70).
ReadPrefix ==
    /\ pc = "loop"
    /\ i < Len(files)
    /\ currentFile' = RelativePath(files[i + 1])
    /\ pc' = "await"
    /\ UNCHANGED <<state, stats, logs, zipBlob, errorMsg, files, i, processedFiles,
                   zipCalls, fixedCount, readerResult, realType, downloads>>

\* The read ends (onloadend, after onerror when it failed): e.target.result is
\* the sliced bytes or null, and the promise settles (fileSignatures.ts 12-68).
OnLoadEnd ==
    /\ pc = "await"
    /\ \E result \in {BlobSlice(files[i + 1]), NullResult} :
          /\ readerResult' = result
          /\ realType' = detectMimeType(result)
    /\ pc' = "resume"
    /\ UNCHANGED <<state, stats, currentFile, logs, zipBlob, errorMsg, files, i,
                   processedFiles, zipCalls, fixedCount, downloads>>

\* Variant: the catch block only logs.
CatchErrorSilent ==
    /\ LocalsDropped
    /\ UNCHANGED <<state, errorMsg, stats, currentFile, logs, zipBlob, downloads>>

\* The catch block (lines 125-129); the call returns after it.
CatchError ==
    /\ state' = "ERROR"
    /\ errorMsg' = GenericErrorMsg
    /\ LocalsDropped
    /\ UNCHANGED <<stats, currentFile, logs, zipBlob, downloads>>

\* [logEntry, ...prev].slice(0, 500)
PushLog(prev, logEntry) == Slice(<<logEntry>> \o prev, 0, LogCap)

\* Variant: processed is set to the loop index.
NextStatsOffByOne(prev, idx, fixed) == [prev EXCEPT !.processed = idx, !.fixed = fixed]

\* prev => ({ ...prev, processed: i + 1, fixed: fixedCount })
NextStats(prev, idx, fixed) == [prev EXCEPT !.processed = idx + 1, !.fixed = fixed]

\* The rest of the iteration after the await (lines 57-118).
AfterDetect ==
    /\ pc = "resume"
    /\ IF realType = Rejected
       THEN CatchError
       ELSE LET file == files[i + 1]
                d == Decide(file, realType)
                logEntry == [originalName |-> file.name,
                             newName |-> d.newName,
                             originalPath |-> RelativePath(file),
                             detectedType |-> realType,
                             status |-> d.status,
                             blob |-> file]
                fixedNow == IF d.status = "fixed" THEN fixedCount + 1 ELSE fixedCount
            IN  /\ fixedCount' = fixedNow
                /\ zipCalls' = Append(zipCalls, [path |-> d.finalPath, file |-> file])
                /\ processedFiles' = Append(processedFiles, logEntry)
                /\ logs' = PushLog(logs, logEntry)
                /\ stats' = NextStats(stats, i, fixedNow)
                /\ i' = i + 1
                /\ pc' = "loop"
                /\ readerResult' = NullResult
                /\ realType' = UNKNOWN
                /\ UNCHANGED <<state, currentFile, zipBlob, errorMsg, files, downloads>>

\* The loop is over (line 120) and generateAsync is awaited (line 121).
FinishLoop ==
    /\ pc = "loop"
    /\ i >= Len(files)
    /\ state' = "ZIPPING"
    /\ pc' = "zip"
    /\ UNCHANGED <<stats, currentFile, logs, zipBlob, errorMsg, files, i,
                   processedFiles, zipCalls, fixedCount, readerResult, realType,
                   downloads>>

\* The entries JSZip holds after the calls: a later zip.file on the same
\* path replaces the earlier entry.
ZipEntries(calls) ==
    { calls[k] : k \in { n \in DOMAIN calls :
                           \A m \in DOMAIN calls : m > n => calls[m].path # calls[n].path } }

\* generateAsync resolves (lines 122-123).
GenerateResolved ==
    /\ pc = "zip"
    /\ zipBlob' = Blob(ZipEntries(zipCalls))
    /\ state' = "COMPLETED"
    /\ LocalsDropped
    /\ UNCHANGED <<stats, currentFile, logs, errorMsg, downloads>>

\* generateAsync rejects: the catch block runs.
GenerateRejected ==
    /\ pc = "zip"
    /\ CatchError

\* downloadZip (lines 132-138).  The button is rendered in COMPLETED only;
\* the function itself is guarded by zipBlob alone.
DownloadZip ==
    /\ downloads < MaxDownloads
    /\ IF zipBlob # NullBlob
       THEN downloads' = downloads + 1
       ELSE downloads' = downloads
    /\ UNCHANGED <<state, stats, currentFile, logs, zipBlob, errorMsg, pc, files, i,
                   processedFiles, zipCalls, fixedCount, readerResult, realType>>

\* Variant: the log is not emptied.
ResetKeepsLogs ==
    /\ state \in {"ERROR", "COMPLETED"}
    /\ state' = "IDLE"
    /\ zipBlob' = NullBlob
    /\ UNCHANGED <<logs, stats, currentFile, errorMsg, pc, files, i, processedFiles,
                   zipCalls, fixedCount, readerResult, realType, downloads>>

\* reset (lines 140-147), offered in ERROR ("Try Again", line 176) and in
\* COMPLETED ("Process New Folder", line 229).  The folder input is not
\* mounted in either state, so fileInputRef.current is null and line 145
\* is skipped.
Reset ==
    /\ state \in {"ERROR", "COMPLETED"}
    /\ state' = "IDLE"
    /\ logs' = <<>>
    /\ zipBlob' = NullBlob
    /\ UNCHANGED <<stats, currentFile, errorMsg, pc, files, i, processedFiles,
                   zipCalls, fixedCount, readerResult, realType, downloads>>

\* Everything but the folder selection.
Run ==
    \/ EnterTry
    \/ ReadPrefix
    \/ OnLoadEnd
    \/ AfterDetect
    \/ FinishLoop
    \/ GenerateResolved
    \/ GenerateRejected
    \/ DownloadZip
    \/ Reset

---------------------------------------------------------------------------
(* The folders the user can select. *)

\* A File of a folder selection: name is the last part of webkitRelativePath
\* (dir is empty for a file picked without a directory).
MkFile(dir, name, bytes) ==
    [name |-> name,
     webkitRelativePath |-> IF dir = <<>> THEN <<>> ELSE dir \o name,
     bytes |-> bytes]

\* 89 50 4E 47 0D 0A 1A 0A, then the start of the IHDR chunk.
BytesPNG  == <<137, 80, 78, 71, 13, 10, 26, 10, 0, 0, 0, 13, 73, 72, 68, 82>>
\* FF D8 FF E0 00 10 4A 46 49 46 00 01 01
BytesJPG  == <<255, 216, 255, 224, 0, 16, 74, 70, 73, 70, 0, 1, 1>>
\* 47 49 46 38 39 61, then the screen descriptor.
BytesGIF  == <<71, 73, 70, 56, 57, 97, 1, 0, 1, 0, 128, 0, 0>>
\* 52 49 46 46 <size> 57 45 42 50 56
BytesWEBP == <<82, 73, 70, 70, 36, 0, 0, 0, 87, 69, 66, 80, 86>>
\* 00 01 02 03
BytesOther == <<0, 1, 2, 3>>

DirD == <<"d", "/">>

SeqsUpTo(S, n) == UNION { [1..k -> S] : k \in 0..n }

DistinctPaths(sel) ==
    \A a, b \in DOMAIN sel : a # b => RelativePath(sel[a]) # RelativePath(sel[b])

\* Batches: up to MaxFiles files of one directory, hidden and __MACOSX names
\* among them, with pairwise distinct relative paths.
BatchNames ==
    { <<"a", ".", "p", "n", "g">>, <<"a", ".", "j", "p", "g">>, <<"a">>,
      <<".", "a">>, MacPrefix }

BatchFiles ==
    { MkFile(DirD, n, b) : n \in BatchNames, b \in {BytesPNG, BytesOther} }

BatchFolders == { sel \in SeqsUpTo(BatchFiles, MaxFiles) : DistinctPaths(sel) }

\* Byte contents: every prefix of each sample with at most one byte replaced,
\* and every content of up to four bytes over a small alphabet.
SampleBytes == {BytesPNG, BytesJPG, BytesGIF, BytesWEBP}

ReplacementBytes == {0, 15, 255}

HeadAlphabet == {13, 15, 143, 216, 253, 255}

DetectContents ==
    { Slice([v EXCEPT ![k] = b], 0, n) :
        v \in SampleBytes, k \in 1..PrefixLen, b \in ReplacementBytes, n \in 0..(PrefixLen + 1) }
    \cup SeqsUpTo(HeadAlphabet, 4)

DetectFolders == { <<MkFile(DirD, <<"f">>, b)>> : b \in DetectContents }

\* File names: a stem, then nothing or '.' and an extension.
Stems == { <<"a">>, <<"a", ".", "b">>, <<".", "a">> }

Extensions ==
    { <<>>, PNG, JPG, JPEG, GIF, WEBP, <<"t", "x", "t">>,
      <<"P", "N", "G">>, <<"J", "p", "g">>, <<"J", "P", "E", "G">>, <<"G", "I", "F">> }

NamingNames == Stems \cup { st \o <<".">> \o e : st \in Stems, e \in Extensions }

NamingDirs == { <<>>, <<"a", "l", ".", "b", "/", "s", "/">> }

NamingFolders ==
    { <<MkFile(dir, n, b)>> :
        dir \in NamingDirs, n \in NamingNames, b \in SampleBytes \cup {BytesOther} }

---------------------------------------------------------------------------
(* Specifications: the same program over the three families of folders. *)

Next == (\E sel \in BatchFolders : HandleFolderSelect(sel)) \/ Run

Spec == Init /\ [][Next]_vars

NextDetect == (\E sel \in DetectFolders : HandleFolderSelect(sel)) \/ Run

SpecDetect == Init /\ [][NextDetect]_vars

NextNaming == (\E sel \in NamingFolders : HandleFolderSelect(sel)) \/ Run

SpecNaming == Init /\ [][NextNaming]_vars

---------------------------------------------------------------------------
(* Properties. *)

Last(s) == s[Len(s)]

HasPrefix(bytes, sig) == Len(bytes) >= Len(sig) /\ SubSeq(bytes, 1, Len(sig)) = sig

\* The ordered byte rules of the specification (section 4.1).
RuleDetect(bytes) ==
    IF HasPrefix(bytes, <<137, 80, 78, 71>>) THEN PNG
    ELSE IF HasPrefix(bytes, <<255, 216, 255>>) THEN JPG
    ELSE IF HasPrefix(bytes, <<71, 73, 70, 56>>) THEN GIF
    ELSE IF /\ Len(bytes) >= 12
            /\ SubSeq(bytes, 1, 4) = <<82, 73, 70, 70>>
            /\ SubSeq(bytes, 9, 12) = <<87, 69, 66, 80>>
         THEN WEBP
    ELSE UNKNOWN

\* C1: for every byte prefix of length 0..12 that was read, detectMimeType
\* settles with what the ordered byte rules give (png, else jpg, else gif,
\* else webp with at least 12 bytes, else unknown).
C1_DetectFollowsRules ==
    (pc = "resume" /\ ~readerResult.null) => realType = RuleDetect(readerResult.bytes)

\* C2: the final paths passed to zip.file during a run are pairwise distinct
\* (the input relative paths are pairwise distinct in every folder).
C2_FinalPathsDistinct ==
    \A a, b \in DOMAIN zipCalls : a # b => zipCalls[a].path # zipCalls[b].path

\* C3: in COMPLETED the archive holds exactly one entry per input file, each
\* input file's content being stored in it, so that the number of entries
\* equals stats.total.
C3_ArchiveHoldsEveryFile ==
    state = "COMPLETED" =>
        /\ Cardinality(zipBlob.entries) = stats.total
        /\ \A k \in DOMAIN logs : \E x \in zipBlob.entries : x.file = logs[k].blob

\* Position (1-based) of the last c in s, 0 when s holds none.
LastPos(s, c) ==
    IF \E k \in DOMAIN s : s[k] = c
    THEN CHOOSE k \in DOMAIN s : s[k] = c /\ \A m \in DOMAIN s : m > k => s[m] # c
    ELSE 0

\* The lower-cased text after the last '.', empty when there is no '.'.
ExtOf(name) ==
    IF LastPos(name, ".") = 0 THEN <<>>
    ELSE ToLowerCase(SubSeq(name, LastPos(name, ".") + 1, Len(name)))

\* The outcome's extension already agrees with the detected type.
KeepsName(e) ==
    \/ e.detectedType = UNKNOWN
    \/ ExtOf(e.originalName) = e.detectedType
    \/ (ExtOf(e.originalName) = JPEG /\ e.detectedType = JPG)

\* C4: an outcome is 'unchanged' with finalPath equal to the original path
\* exactly when the detected type is unknown, or the lower-cased extension
\* equals it, or the extension is jpeg and the type jpg; otherwise it is
\* 'fixed'; 'skipped' is never produced.
C4_DecisionRule ==
    \A k \in DOMAIN processedFiles :
        LET e == processedFiles[k]
            finalPath == zipCalls[k].path
        IN  /\ (e.status = "unchanged" /\ finalPath = e.originalPath) <=> KeepsName(e)
            /\ ~KeepsName(e) => e.status = "fixed"
            /\ e.status \in {"fixed", "unchanged"}

\* A .JPEG name detected as jpg was left alone, and so was a file of unknown
\* content; a wrong extension was fixed.
C4_Witness ==
    /\ Len(processedFiles) = 1
    /\ processedFiles[1].originalName = <<"a", ".", "J", "P", "E", "G">>
    /\ processedFiles[1].detectedType = JPG
    /\ processedFiles[1].status = "unchanged"

\* C5: a 'fixed' outcome's final path is the original path with only its last
\* '/'-separated part replaced, by the name up to its last '.' (the whole name
\* when it has none), a '.' and the detected type; its extension is then the
\* detected type.
C5_FixedPath ==
    \A k \in DOMAIN processedFiles :
        LET e == processedFiles[k]
            finalPath == zipCalls[k].path
            dirs == SubSeq(e.originalPath, 1, LastPos(e.originalPath, "/"))
            dot == LastPos(e.originalName, ".")
            base == IF dot = 0 THEN e.originalName ELSE SubSeq(e.originalName, 1, dot - 1)
        IN  e.status = "fixed" =>
                /\ finalPath = dirs \o base \o <<".">> \o e.detectedType
                /\ e.newName = base \o <<".">> \o e.detectedType
                /\ ExtOf(finalPath) = e.detectedType

\* al.b/s/a.b.txt holding a GIF was fixed to al.b/s/a.b.gif.
C5_Witness ==
    /\ Len(processedFiles) = 1
    /\ processedFiles[1].status = "fixed"
    /\ processedFiles[1].originalPath =
         <<"a", "l", ".", "b", "/", "s", "/", "a", ".", "b", ".", "t", "x", "t">>
    /\ zipCalls[1].path =
         <<"a", "l", ".", "b", "/", "s", "/", "a", ".", "b", ".", "g", "i", "f">>

InRun == pc # "none"

\* A failed read leaves the promise settled with 'unknown'.
C6_FailedReadIsUnknown == (pc = "resume" /\ readerResult.null) => realType = UNKNOWN

\* The iteration after a failed read records the file as unknown and
\* unchanged under its original path, archives it there and goes on.
C6_FailedReadIsAbsorbed ==
    (pc = "resume" /\ readerResult.null /\ pc' # pc) =>
        /\ pc' = "loop"
        /\ state' = "PROCESSING"
        /\ i' = i + 1
        /\ Len(processedFiles') = Len(processedFiles) + 1
        /\ Last(processedFiles').detectedType = UNKNOWN
        /\ Last(processedFiles').status = "unchanged"
        /\ Last(processedFiles').originalPath = RelativePath(files[i + 1])
        /\ Last(zipCalls') = [path |-> RelativePath(files[i + 1]), file |-> files[i + 1]]
        /\ Head(logs') = Last(processedFiles')

\* The state becomes ERROR only at the end of archive assembly.
C6_ErrorOnlyFromZip == (state # "ERROR" /\ state' = "ERROR") => pc = "zip"

\* When the loop is over every file of the batch has its outcome and its
\* zip.file call, in input order.
C6_EveryFileHandled ==
    pc = "zip" =>
        /\ Len(processedFiles) = Len(files)
        /\ Len(zipCalls) = Len(files)
        /\ \A k \in DOMAIN files :
              /\ processedFiles[k].blob = files[k]
              /\ processedFiles[k].originalPath = RelativePath(files[k])
              /\ zipCalls[k].file = files[k]

\* C6: a failed read of one file's prefix does not abort the run: the file is
\* recorded as unknown/unchanged under its original path, the state does not
\* become ERROR because of it, and every later file is still detected,
\* decided, logged and added to the archive.
C6_ReadFailureDoesNotAbort ==
    /\ [](C6_FailedReadIsUnknown /\ C6_EveryFileHandled)
    /\ [][C6_FailedReadIsAbsorbed /\ C6_ErrorOnlyFromZip]_vars

\* The loop is over; the first file holds a PNG yet was recorded unknown (its
\* read failed) and the file after it was still detected as png.
C6_Witness ==
    /\ pc = "zip"
    /\ Len(processedFiles) >= 2
    /\ processedFiles[1].blob.bytes = BytesPNG
    /\ processedFiles[1].detectedType = UNKNOWN
    /\ processedFiles[1].status = "unchanged"
    /\ processedFiles[2].detectedType = PNG

\* The end of archive assembly: either the blob is stored and the state is
\* COMPLETED, or nothing is stored and the state is ERROR with the generic
\* message.
C7_ZipOutcome ==
    (pc = "zip" /\ pc' = "none") =>
        \/ state' = "COMPLETED" /\ ~zipBlob'.null
        \/ state' = "ERROR" /\ zipBlob'.null /\ errorMsg' = GenericErrorMsg

\* From ERROR the state only goes back to IDLE, and no archive is handed out.
C7_NoArchiveInError ==
    state = "ERROR" => (state' \in {"ERROR", "IDLE"} /\ zipBlob'.null /\ downloads' = downloads)

\* C7: when archive assembly fails the run ends in ERROR with the generic
\* message, zipBlob stays null, COMPLETED is not reached for that run and
\* downloadZip hands out no archive.
C7_FailedZipGivesNoArchive ==
    /\ [](state = "ERROR" => (zipBlob.null /\ errorMsg = GenericErrorMsg /\ pc = "none"))
    /\ [][C7_ZipOutcome /\ C7_NoArchiveInError]_vars

\* Archive assembly failed after a batch of two files.
C7_Witness ==
    /\ state = "ERROR"
    /\ errorMsg = GenericErrorMsg
    /\ zipBlob.null
    /\ stats.total = 2
    /\ stats.processed = 2

RECURSIVE CountFixed(_)
CountFixed(outcomes) ==
    IF outcomes = <<>> THEN 0
    ELSE (IF Head(outcomes).status = "fixed" THEN 1 ELSE 0) + CountFixed(Tail(outcomes))

\* The summary agrees with the outcome list while the run is live.
C8_SummaryAgrees ==
    /\ InRun => /\ stats.processed = Len(processedFiles)
                /\ stats.fixed = CountFixed(processedFiles)
                /\ stats.total = Len(files)
                /\ Len(logs) = Min(stats.processed, LogCap)
    /\ stats.fixed <= stats.processed
    /\ stats.processed <= stats.total
    /\ state = "ZIPPING" => stats.processed = stats.total

\* One file step adds exactly 1 to processed; no step of a run lowers fixed
\* or changes processed otherwise.
C8_SummaryAdvances ==
    (InRun /\ pc' # "none") =>
        /\ stats'.fixed >= stats.fixed
        /\ stats'.processed =
             (IF pc = "resume" /\ pc' = "loop" THEN stats.processed + 1 ELSE stats.processed)

\* C8: between file steps stats.processed is the number of outcomes recorded,
\* stats.fixed the number of them that are 'fixed', fixed <= processed <=
\* total; processed grows by exactly 1 per file, fixed never decreases, and
\* processed equals total in ZIPPING.
C8_SummaryMatchesLog == []C8_SummaryAgrees /\ [][C8_SummaryAdvances]_vars

\* Between two file steps of a batch of three, one of two outcomes fixed.
C8_Witness ==
    /\ pc = "loop"
    /\ stats.total = 3
    /\ stats.processed = 2
    /\ stats.fixed = 1
    /\ Len(processedFiles) = 2

SkippedName(name) ==
    \/ (Len(name) >= 1 /\ name[1] = ".")
    \/ (Len(name) >= 8 /\ SubSeq(name, 1, 8) = <<"_", "_", "M", "A", "C", "O", "S", "X">>)

\* A live run has at least one file, and none with a skipped name.
C10_RunHasOnlyValidFiles ==
    /\ InRun => (Len(files) >= 1 /\ stats.total >= 1)
    /\ \A k \in DOMAIN files : ~SkippedName(files[k].name)
    /\ \A k \in DOMAIN processedFiles : ~SkippedName(processedFiles[k].originalName)
    /\ \A k \in DOMAIN logs : ~SkippedName(logs[k].originalName)
    /\ \A k \in DOMAIN zipCalls : ~SkippedName(zipCalls[k].file.name)

\* A selection that starts no run leaves the state IDLE and stats, logs and
\* zipBlob as they were; the only thing it may record is the validation
\* message.
C10_RejectedSelection ==
    (state = "IDLE" /\ pc' = "none") =>
        /\ state' = "IDLE"
        /\ UNCHANGED <<stats, logs, zipBlob, currentFile>>
        /\ errorMsg' # errorMsg => errorMsg' = NoValidFilesMsg

\* The validation message is only ever present in IDLE or left over from it.
C10_ValidationOnlyInIdle ==
    (errorMsg' = NoValidFilesMsg /\ errorMsg # NoValidFilesMsg) => (state = "IDLE" /\ state' = "IDLE")

\* C10: an empty or all-filtered selection starts no run: the state stays
\* IDLE, stats, logs and zipBlob are unchanged, an all-filtered selection only
\* records the validation message, and no file whose name starts with '.' or
\* '__MACOSX' is ever processed.
C10_FilteredSelectionStartsNothing ==
    /\ []C10_RunHasOnlyValidFiles
    /\ [][C10_RejectedSelection /\ C10_ValidationOnlyInIdle]_vars

\* An all-filtered selection made after an earlier run: the validation
\* message is recorded in IDLE and the earlier run's counters are untouched.
C10_Witness ==
    /\ state = "IDLE"
    /\ pc = "none"
    /\ errorMsg = NoValidFilesMsg
    /\ stats.total = 2
    /\ logs = <<>>
    /\ zipBlob.null

\* The moves of the run state the claim allows.
AllowedMoves ==
    { <<"IDLE", "READING">>, <<"READING", "PROCESSING">>, <<"PROCESSING", "ZIPPING">>,
      <<"ZIPPING", "COMPLETED">>, <<"PROCESSING", "ERROR">>, <<"ZIPPING", "ERROR">>,
      <<"COMPLETED", "IDLE">>, <<"ERROR", "IDLE">> }

\* Every change of the run state is an allowed move.
C11_StateMoves == state' # state => <<state, state'>> \in AllowedMoves

\* A call of startProcessing begins only in IDLE with no other call live, and
\* a move back to IDLE is made by reset alone (no call is live, the log is
\* emptied and zipBlob is null afterwards).
C11_RunStartsInIdle ==
    /\ (pc' = "try" /\ pc # "try") => (pc = "none" /\ state = "IDLE" /\ state' = "READING")
    /\ (state # "IDLE" /\ state' = "IDLE") =>
          (pc = "none" /\ pc' = "none" /\ logs' = <<>> /\ zipBlob'.null)

\* The run state tells where the one call of startProcessing is.
C11_OneRun ==
    /\ state \in {"IDLE", "READING", "PROCESSING", "ZIPPING", "COMPLETED", "ERROR"}
    /\ pc = "try" <=> state = "READING"
    /\ pc \in {"loop", "await", "resume"} <=> state = "PROCESSING"
    /\ pc = "zip" <=> state = "ZIPPING"
    /\ pc = "none" <=> state \in {"IDLE", "COMPLETED", "ERROR"}
    /\ state = "COMPLETED" => ~zipBlob.null

\* C11: the run state only moves IDLE -> READING -> PROCESSING -> ZIPPING ->
\* COMPLETED, from PROCESSING or ZIPPING to ERROR, and from COMPLETED or ERROR
\* back to IDLE by reset; a run starts only from IDLE, so two runs never
\* interleave, and in COMPLETED zipBlob is non-null.
C11_StateMachine == []C11_OneRun /\ [][C11_StateMoves /\ C11_RunStartsInIdle]_vars

\* A second run is starting: an archive of an earlier run was downloaded in
\* COMPLETED, reset went back to IDLE, and a new selection of two files has
\* put the state in READING with zipBlob null again.
C11_Witness ==
    /\ state = "READING"
    /\ pc = "try"
    /\ downloads = 1
    /\ zipBlob.null
    /\ stats.total = 2
    /\ stats.processed = 0

=============================================================================
